---- MODULE Spec2Model ----
(***************************************************************************)
(* A model of src/string.rs of rusty_v8: the v8::String binding.  The      *)
(* state is the engine's string heap together with a record of the last    *)
(* binding call: its arguments, its result, and the backend (extern "C")   *)
(* calls it made.  The extern "C" functions and HandleScope::cast_local    *)
(* live outside string.rs and are modelled from their documented contract. *)
(*                                                                         *)
(* Integer widths are scaled: `int` is IntBits wide (32 in the build) and  *)
(* `usize` is twice that (64 in the build), so that lengths beyond         *)
(* int::max_value() are values TLC can hold.                               *)
(***************************************************************************)
EXTENDS Integers, Sequences, FiniteSets, TLC

\* ------------------------------------------------------------------ bounds
\* Width in bits of the engine's `int` (support::int, i32 in the build).
IntBits == 5
\* Number of strings the engine heap can hold, the Empty root included.
MaxHeap == 2

UsizeBits == 2 * IntBits
IntMax == 2 ^ (IntBits - 1) - 1
IntModulus == 2 ^ IntBits
UsizeMax == 2 ^ UsizeBits - 1
UsizeModulus == 2 ^ UsizeBits

\* --------------------------------------------------------- program constants
NO_OPTIONS == 0
HINT_MANY_WRITES_EXPECTED == 1
NO_NULL_TERMINATION == 2
PRESERVE_ONE_BYTE_NULL == 4
REPLACE_INVALID_UTF8 == 8

\* bitflags: whether `flag` (a power of two) is set in `options`.
Contains(options, flag) == (options \div flag) % 2 = 1

\* ------------------------------------------------------------ small helpers
Min(a, b) == IF a <= b THEN a ELSE b

Take(s, n) == SubSeq(s, 1, Min(n, Len(s)))

\* Option<T> and raw pointers.  A pointer to an engine string is its index in
\* the heap; the null pointer is 0.
NullPtr == 0
None == [some |-> FALSE, v |-> 0]
Some(x) == [some |-> TRUE, v |-> x]

\* ----------------------------------------------------------------- UTF-8
ReplacementChar == 65533
IsLeadSurrogate(u) == u >= 55296 /\ u <= 56319
IsTrailSurrogate(u) == u >= 56320 /\ u <= 57343
IsSurrogate(u) == u >= 55296 /\ u <= 57343

\* The UTF-8 bytes of one code point (surrogates encode as three bytes).
EncodeCodePoint(cp) ==
  IF cp < 128 THEN <<cp>>
  ELSE IF cp < 2048 THEN <<192 + (cp \div 64), 128 + (cp % 64)>>
  ELSE IF cp < 65536
    THEN <<224 + (cp \div 4096), 128 + ((cp \div 64) % 64), 128 + (cp % 64)>>
  ELSE <<240 + (cp \div 262144), 128 + ((cp \div 4096) % 64),
         128 + ((cp \div 64) % 64), 128 + (cp % 64)>>

\* The UTF-16 code units of one code point.
CodeUnits(cp) ==
  IF cp < 65536 THEN <<cp>>
  ELSE <<55296 + ((cp - 65536) \div 1024), 56320 + ((cp - 65536) % 1024)>>

\* Number of continuation bytes a lead byte announces; -1 for a byte that
\* cannot start a sequence.
Needed(lead) ==
  IF lead < 128 THEN 0
  ELSE IF lead >= 194 /\ lead <= 223 THEN 1
  ELSE IF lead >= 224 /\ lead <= 239 THEN 2
  ELSE IF lead >= 240 /\ lead <= 244 THEN 3
  ELSE -1

\* Whether byte c may stand at position k (1-based) after lead byte `lead`.
IsContinuation(lead, k, c) ==
  LET lo == IF k = 1 /\ lead = 224 THEN 160
            ELSE IF k = 1 /\ lead = 240 THEN 144 ELSE 128
      hi == IF k = 1 /\ lead = 237 THEN 159
            ELSE IF k = 1 /\ lead = 244 THEN 143 ELSE 191
  IN c >= lo /\ c <= hi

\* How many of the announced continuation bytes follow b[i].
RECURSIVE Followers(_, _, _)
Followers(b, i, k) ==
  IF k > Needed(b[i]) \/ i + k > Len(b) \/ ~IsContinuation(b[i], k, b[i + k])
  THEN k - 1
  ELSE Followers(b, i, k + 1)

\* The code point of the complete sequence of 1 + n bytes at b[i].
SequenceValue(b, i, n) ==
  IF n = 0 THEN b[i]
  ELSE IF n = 1 THEN (b[i] - 192) * 64 + (b[i + 1] - 128)
  ELSE IF n = 2
    THEN (b[i] - 224) * 4096 + (b[i + 1] - 128) * 64 + (b[i + 2] - 128)
  ELSE (b[i] - 240) * 262144 + (b[i + 1] - 128) * 4096
       + (b[i + 2] - 128) * 64 + (b[i + 3] - 128)

\* Well-formed UTF-8: every sequence is complete.
RECURSIVE IsValidUtf8From(_, _)
IsValidUtf8From(b, i) ==
  IF i > Len(b) THEN TRUE
  ELSE /\ b[i] >= 0 /\ b[i] <= 255
       /\ Needed(b[i]) >= 0
       /\ Followers(b, i, 1) = Needed(b[i])
       /\ IsValidUtf8From(b, i + 1 + Needed(b[i]))

IsValidUtf8(b) == IsValidUtf8From(b, 1)

\* The engine's decoder: an ill-formed sequence becomes one U+FFFD per
\* maximal subpart.
RECURSIVE DecodeUtf8From(_, _)
DecodeUtf8From(b, i) ==
  IF i > Len(b) THEN <<>>
  ELSE LET n == Needed(b[i])
           j == IF n < 0 THEN 0 ELSE Followers(b, i, 1)
       IN IF n >= 0 /\ j = n
          THEN CodeUnits(SequenceValue(b, i, n)) \o DecodeUtf8From(b, i + 1 + n)
          ELSE <<ReplacementChar>> \o DecodeUtf8From(b, i + 1 + j)

DecodeUtf8(b) == DecodeUtf8From(b, 1)

\* The engine's encoder, one step: the bytes for the character at units[i]
\* and the number of code units it spans.
EncodeAt(units, i, replace) ==
  LET u == units[i]
  IN IF IsLeadSurrogate(u) /\ i < Len(units) /\ IsTrailSurrogate(units[i + 1])
     THEN [bytes |-> EncodeCodePoint(65536 + (u - 55296) * 1024
                                     + (units[i + 1] - 56320)),
           span |-> 2]
     ELSE IF IsSurrogate(u) /\ replace
     THEN [bytes |-> EncodeCodePoint(ReplacementChar), span |-> 1]
     ELSE [bytes |-> EncodeCodePoint(u), span |-> 1]

\* Whole characters from units[i] on, as long as they fit in `room` bytes
\* (room < 0: no limit).  Yields the bytes and the code units consumed.
RECURSIVE EncodeFrom(_, _, _, _)
EncodeFrom(units, i, room, replace) ==
  IF i > Len(units) THEN [bytes |-> <<>>, read |-> 0]
  ELSE LET e == EncodeAt(units, i, replace)
       IN IF room >= 0 /\ Len(e.bytes) > room
          THEN [bytes |-> <<>>, read |-> 0]
          ELSE LET rest == EncodeFrom(units, i + e.span,
                                      IF room < 0 THEN room
                                      ELSE room - Len(e.bytes), replace)
               IN [bytes |-> e.bytes \o rest.bytes, read |-> e.span + rest.read]

\* ------------------------------------------------------------ engine strings
\* An engine string: its UTF-16 code units, whether its characters live in an
\* external (host) buffer, whether its representation is one-byte, and
\* whether it is in the engine's string table.
EngineString(units, external, onebyte, interned) ==
  [units |-> units, external |-> external, onebyte |-> onebyte,
   interned |-> interned]

EmptyString == EngineString(<<>>, FALSE, TRUE, TRUE)

\* The longest string the engine builds; three bytes per code unit still fit
\* an `int`.
kMaxLength == IntMax \div 3

IsLatin1(units) == \A i \in 1..Len(units) : units[i] < 256

\* An extern "C" call as the backend sees it: the function, the length and
\* the options passed (0 where it takes none), and what it returned.
Call(fn, length, options, result) ==
  [fn |-> fn, length |-> length, options |-> options, result |-> result]

\* -------------------------------------------------- backend (extern "C")
\* Each creation primitive yields the pointer it returns and the heap after.
v8__String__Empty(h) == 1

v8__String__NewFromUtf8(h, data, new_type, length, oom) ==
  IF length = 0 THEN [ptr |-> v8__String__Empty(h), heap |-> h]
  ELSE IF length > kMaxLength THEN [ptr |-> NullPtr, heap |-> h]
  ELSE LET n == IF length < 0 THEN Len(data) ELSE length
           units == DecodeUtf8(Take(data, n))
           found == {i \in 1..Len(h) : h[i].interned /\ h[i].units = units}
       IN IF new_type = "Internalized" /\ found # {}
          THEN [ptr |-> CHOOSE i \in found : \A j \in found : i <= j,
                heap |-> h]
          ELSE IF oom \/ Len(h) >= MaxHeap THEN [ptr |-> NullPtr, heap |-> h]
          ELSE [ptr |-> Len(h) + 1,
                heap |-> Append(h, EngineString(units, FALSE, IsLatin1(units),
                                                new_type = "Internalized"))]

v8__String__NewExternalOneByteStatic(h, buffer, length, oom) ==
  IF length = 0 THEN [ptr |-> v8__String__Empty(h), heap |-> h]
  ELSE IF length > kMaxLength \/ length < 0 \/ oom \/ Len(h) >= MaxHeap
  THEN [ptr |-> NullPtr, heap |-> h]
  ELSE [ptr |-> Len(h) + 1,
        heap |-> Append(h, EngineString(Take(buffer, length), TRUE, TRUE,
                                        FALSE))]

v8__String__Length(s) == Len(s.units)

v8__String__Utf8Length(s) == Len(EncodeFrom(s.units, 1, -1, FALSE).bytes)

\* Writes whole characters while they fit in `length` bytes, then a NUL if
\* asked for and there is room; returns the bytes written, the NUL included.
v8__String__WriteUtf8(s, length, options) ==
  LET e == EncodeFrom(s.units, 1, length,
                      Contains(options, REPLACE_INVALID_UTF8))
      nul == IF ~Contains(options, NO_NULL_TERMINATION)
                /\ (length < 0 \/ Len(e.bytes) < length)
             THEN <<0>> ELSE <<>>
  IN [buffer |-> e.bytes \o nul, nchars |-> e.read,
      ret |-> Len(e.bytes) + Len(nul)]

\* Value::IsExternal, which the engine release in use answers with: never
\* true of a string.
v8__String__IsExternal(s) == FALSE
v8__String__IsExternalOneByte(s) == s.external /\ s.onebyte
v8__String__IsExternalTwoByte(s) == s.external /\ ~s.onebyte
v8__String__IsOneByte(s) == s.onebyte

\* HandleScope::cast_local: a null pointer is None.
cast_local(ptr) == IF ptr = NullPtr THEN None ELSE Some(ptr)

\* ------------------------------------------------------------- conversions
\* usize -> int by `as`: the low bits, read as a signed value.
as_int(n) == ((n + IntMax + 1) % IntModulus) - (IntMax + 1)

\* try_into() replaced by an `as` cast: always a value, possibly wrapped.
try_into_wrapping(n) == Some(as_int(n))

\* usize -> int by try_into(): None when the value does not fit.
try_into(n) == IF n <= IntMax THEN Some(n) ELSE None

\* int -> usize by `as`: a negative value wraps.
as_usize(i) == IF i >= 0 THEN i ELSE i + UsizeModulus

\* ------------------------------------------------------- impl String (host)
\* A host byte slice: its length and the bytes at its start (all of them
\* unless the slice is longer than any string the engine reads).
Buf(data) == [len |-> Len(data), data |-> data]

\* String::empty: the pointer comes from the backend and is unwrapped.
empty(h) ==
  [local |-> cast_local(v8__String__Empty(h)).v,
   calls |-> <<Call("v8__String__Empty", 0, 0, v8__String__Empty(h))>>]

\* new_from_utf8 without the is_empty() test.
new_from_utf8_without_empty_check(h, buffer, new_type, oom) ==
  LET buffer_len == try_into(buffer.len)
  IN IF ~buffer_len.some
     THEN [local |-> None, heap |-> h, calls |-> <<>>]
     ELSE LET r == v8__String__NewFromUtf8(h, buffer.data, new_type,
                                           buffer_len.v, oom)
          IN [local |-> cast_local(r.ptr), heap |-> r.heap,
              calls |-> <<Call("v8__String__NewFromUtf8",
                               buffer_len.v, 0, r.ptr)>>]

\* new_from_utf8 wrapping the backend's pointer without the null test.
new_from_utf8_unchecked(h, buffer, new_type, oom) ==
  IF buffer.len = 0
  THEN [local |-> Some(empty(h).local), heap |-> h, calls |-> empty(h).calls]
  ELSE LET buffer_len == try_into(buffer.len)
       IN IF ~buffer_len.some
          THEN [local |-> None, heap |-> h, calls |-> <<>>]
          ELSE LET r == v8__String__NewFromUtf8(h, buffer.data, new_type,
                                                buffer_len.v, oom)
               IN [local |-> Some(r.ptr), heap |-> r.heap,
                   calls |-> <<Call("v8__String__NewFromUtf8",
                                    buffer_len.v, 0, r.ptr)>>]

\* String::new_from_utf8.
new_from_utf8(h, buffer, new_type, oom) ==
  IF buffer.len = 0
  THEN [local |-> Some(empty(h).local), heap |-> h, calls |-> empty(h).calls]
  ELSE LET buffer_len == try_into(buffer.len)
       IN IF ~buffer_len.some
          THEN [local |-> None, heap |-> h, calls |-> <<>>]
          ELSE LET r == v8__String__NewFromUtf8(h, buffer.data, new_type,
                                                buffer_len.v, oom)
               IN [local |-> cast_local(r.ptr), heap |-> r.heap,
                   calls |-> <<Call("v8__String__NewFromUtf8",
                                    buffer_len.v, 0, r.ptr)>>]

\* String::new.
new(h, value, oom) == new_from_utf8(h, value, "Normal", oom)

\* new_external_onebyte_static without the is_empty() test.
new_external_onebyte_static_without_empty_check(h, value, oom) ==
  LET buffer == value
      buffer_len == try_into(buffer.len)
  IN IF ~buffer_len.some
     THEN [local |-> None, heap |-> h, calls |-> <<>>]
     ELSE LET r == v8__String__NewExternalOneByteStatic(
                     h, buffer.data, buffer_len.v, oom)
          IN [local |-> cast_local(r.ptr), heap |-> r.heap,
              calls |-> <<Call("v8__String__NewExternalOneByteStatic",
                               buffer_len.v, 0, r.ptr)>>]

\* String::new_external_onebyte_static.
new_external_onebyte_static(h, value, oom) ==
  LET buffer == value
  IN IF buffer.len = 0
     THEN [local |-> None, heap |-> h, calls |-> <<>>]
     ELSE LET buffer_len == try_into(buffer.len)
          IN IF ~buffer_len.some
             THEN [local |-> None, heap |-> h, calls |-> <<>>]
             ELSE LET r == v8__String__NewExternalOneByteStatic(
                             h, buffer.data, buffer_len.v, oom)
                  IN [local |-> cast_local(r.ptr), heap |-> r.heap,
                      calls |-> <<Call("v8__String__NewExternalOneByteStatic",
                                       buffer_len.v, 0, r.ptr)>>]

\* String::length and String::utf8_length.
length(s) == as_usize(v8__String__Length(s))
utf8_length(s) == as_usize(v8__String__Utf8Length(s))

\* write_utf8 with `buffer.len() as int` for the capacity.
write_utf8_wrapping_cast(s, buffer_len, nchars_ref, options) ==
  LET capacity == as_int(buffer_len)
      w == v8__String__WriteUtf8(s, capacity, options)
  IN [bytes |-> as_usize(w.ret),
      nchars |-> IF nchars_ref THEN as_usize(w.nchars) ELSE 0,
      buffer |-> w.buffer,
      calls |-> <<Call("v8__String__WriteUtf8", capacity, options, w.ret)>>]

\* String::write_utf8 into a buffer of buffer_len bytes.
write_utf8(s, buffer_len, nchars_ref, options) ==
  LET capacity == IF try_into(buffer_len).some THEN try_into(buffer_len).v
                  ELSE IntMax
      w == v8__String__WriteUtf8(s, capacity, options)
  IN [bytes |-> as_usize(w.ret),
      nchars |-> IF nchars_ref THEN as_usize(w.nchars) ELSE 0,
      buffer |-> w.buffer,
      calls |-> <<Call("v8__String__WriteUtf8", capacity, options, w.ret)>>]

\* is_external by the backend's own IsExternal (the disabled line).
is_external_native(s) == v8__String__IsExternal(s)

\* String::is_external and its siblings.
is_external_onebyte(s) == v8__String__IsExternalOneByte(s)
is_external_twobyte(s) == v8__String__IsExternalTwoByte(s)
is_external(s) == is_external_onebyte(s) \/ is_external_twobyte(s)
is_onebyte(s) == v8__String__IsExternalOneByte(s)

\* std::string::String::from_raw_parts: the first `len` bytes at `data`,
\* where bytes the backend did not write hold whatever `uninit` was there.
from_raw_parts(data, len, uninit) ==
  [i \in 1..len |-> IF i <= Len(data) THEN data[i] ELSE uninit]

\* to_rust_string_lossy's options without REPLACE_INVALID_UTF8.
lossy_options_without_replace == NO_NULL_TERMINATION

\* What to_rust_string_lossy passes to write_utf8.
lossy_options == NO_NULL_TERMINATION + REPLACE_INVALID_UTF8

\* Capacities to_rust_string_lossy could wrongly allocate: the code-unit
\* count, and room for a terminator.
lossy_capacity_in_code_units(s) == length(s)
lossy_capacity_with_terminator(s) == utf8_length(s) + 1

\* The capacity to_rust_string_lossy allocates.
lossy_capacity(s) == utf8_length(s)

\* String::to_rust_string_lossy.
to_rust_string_lossy(s, uninit) ==
  LET capacity == lossy_capacity(s)
      w == write_utf8(s, capacity, FALSE, lossy_options)
  IN [text |-> from_raw_parts(w.buffer, w.bytes, uninit),
      capacity |-> capacity,
      length |-> w.bytes,
      calls |-> <<Call("v8__String__Utf8Length", 0, 0,
                       v8__String__Utf8Length(s))>> \o w.calls]

\* ------------------------------------------------------------------- state
VARIABLES
  heap,   \* the engine's strings; heap[1] is the Empty root
  heap0,  \* the heap as it was before the last call
  op,     \* the last binding call
  arg,    \* its arguments
  ret,    \* its result
  calls   \* the backend calls it made, in order

vars == <<heap, heap0, op, arg, ret, calls>>

NoArg == [buffer |-> Buf(<<>>), new_type |-> "Normal", this |-> 0,
          options |-> 0, nchars_ref |-> FALSE]
NoRet == [local |-> None, n |-> 0, nchars |-> 0, text |-> <<>>,
          capacity |-> 0, flag |-> FALSE]

\* ------------------------------------------------------------------ inputs
NewStringType == {"Normal", "Internalized"}

\* Slices too long for an `int`, or as long as an `int` allows; they start
\* with "a".
HugeBuffers ==
  {[len |-> n, data |-> <<97>>] :
     n \in {IntMax, IntMax + 1, IntModulus + 1, UsizeMax}}

\* &str values: "", "a", "e-acute", "a e-acute", and the huge ones.
Texts ==
  {Buf(<<>>), Buf(<<97>>), Buf(<<195, 169>>), Buf(<<97, 195, 169>>)}
    \cup HugeBuffers

\* &[u8] values: the texts, a truncated sequence and a stray continuation.
Buffers == Texts \cup {Buf(<<195>>), Buf(<<169, 97>>)}

OutputCapacities == {0, 1, 3, IntMax, IntMax + 1, UsizeMax}

WriteOptionSets ==
  {NO_OPTIONS, NO_NULL_TERMINATION, REPLACE_INVALID_UTF8,
   HINT_MANY_WRITES_EXPECTED + PRESERVE_ONE_BYTE_NULL,
   NO_NULL_TERMINATION + REPLACE_INVALID_UTF8}

\* Strings that scripts make: a lone lead surrogate, a lone trail surrogate
\* before "a", a surrogate pair, and an external two-byte string.
ScriptStrings ==
  {EngineString(<<55296>>, FALSE, FALSE, FALSE),
   EngineString(<<56320, 97>>, FALSE, FALSE, FALSE),
   EngineString(<<55296, 56320>>, FALSE, FALSE, FALSE),
   EngineString(<<8364>>, TRUE, FALSE, FALSE)}

\* What an uninitialized byte may hold.
UninitBytes == {0, 97, 255}

Handles == 1..Len(heap)

\* ----------------------------------------------------------------- actions
Init ==
  /\ heap = <<EmptyString>>
  /\ heap0 = <<EmptyString>>
  /\ op = "idle"
  /\ arg = NoArg
  /\ ret = NoRet
  /\ calls = <<>>

CallEmpty ==
  /\ op = "idle"
  /\ heap0' = heap
  /\ heap' = heap
  /\ op' = "empty"
  /\ arg' = NoArg
  /\ ret' = [NoRet EXCEPT !.local = Some(empty(heap).local)]
  /\ calls' = empty(heap).calls

CallNewFromUtf8 ==
  \E buffer \in Buffers, new_type \in NewStringType, oom \in BOOLEAN :
    LET r == new_from_utf8(heap, buffer, new_type, oom)
    IN /\ op = "idle"
       /\ heap0' = heap
       /\ heap' = r.heap
       /\ op' = "new_from_utf8"
       /\ arg' = [NoArg EXCEPT !.buffer = buffer, !.new_type = new_type]
       /\ ret' = [NoRet EXCEPT !.local = r.local]
       /\ calls' = r.calls

CallNew ==
  \E value \in Texts, oom \in BOOLEAN :
    LET r == new(heap, value, oom)
    IN /\ op = "idle"
       /\ heap0' = heap
       /\ heap' = r.heap
       /\ op' = "new"
       /\ arg' = [NoArg EXCEPT !.buffer = value]
       /\ ret' = [NoRet EXCEPT !.local = r.local]
       /\ calls' = r.calls

CallNewExternalOneByteStatic ==
  \E value \in Texts, oom \in BOOLEAN :
    LET r == new_external_onebyte_static(heap, value, oom)
    IN /\ op = "idle"
       /\ heap0' = heap
       /\ heap' = r.heap
       /\ op' = "new_external_onebyte_static"
       /\ arg' = [NoArg EXCEPT !.buffer = value]
       /\ ret' = [NoRet EXCEPT !.local = r.local]
       /\ calls' = r.calls

CallLength ==
  \E this \in Handles :
    /\ op = "idle"
    /\ heap0' = heap
    /\ heap' = heap
    /\ op' = "length"
    /\ arg' = [NoArg EXCEPT !.this = this]
    /\ ret' = [NoRet EXCEPT !.n = length(heap[this])]
    /\ calls' = <<Call("v8__String__Length", 0, 0,
                        v8__String__Length(heap[this]))>>

CallUtf8Length ==
  \E this \in Handles :
    /\ op = "idle"
    /\ heap0' = heap
    /\ heap' = heap
    /\ op' = "utf8_length"
    /\ arg' = [NoArg EXCEPT !.this = this]
    /\ ret' = [NoRet EXCEPT !.n = utf8_length(heap[this])]
    /\ calls' = <<Call("v8__String__Utf8Length", 0, 0,
                        v8__String__Utf8Length(heap[this]))>>

CallWriteUtf8 ==
  \E this \in Handles, buffer_len \in OutputCapacities,
     nchars_ref \in BOOLEAN, options \in WriteOptionSets :
    LET r == write_utf8(heap[this], buffer_len, nchars_ref, options)
    IN /\ op = "idle"
       /\ heap0' = heap
       /\ heap' = heap
       /\ op' = "write_utf8"
       /\ arg' = [NoArg EXCEPT !.this = this, !.options = options,
                               !.nchars_ref = nchars_ref,
                               !.buffer = [len |-> buffer_len, data |-> <<>>]]
       /\ ret' = [NoRet EXCEPT !.n = r.bytes, !.nchars = r.nchars,
                               !.text = r.buffer]
       /\ calls' = r.calls

CallIsExternal ==
  \E this \in Handles :
    /\ op = "idle"
    /\ heap0' = heap
    /\ heap' = heap
    /\ op' = "is_external"
    /\ arg' = [NoArg EXCEPT !.this = this]
    /\ ret' = [NoRet EXCEPT !.flag = is_external(heap[this])]
    /\ calls' = <<>>

CallIsExternalOneByte ==
  \E this \in Handles :
    /\ op = "idle"
    /\ heap0' = heap
    /\ heap' = heap
    /\ op' = "is_external_onebyte"
    /\ arg' = [NoArg EXCEPT !.this = this]
    /\ ret' = [NoRet EXCEPT !.flag = is_external_onebyte(heap[this])]
    /\ calls' = <<>>

CallIsExternalTwoByte ==
  \E this \in Handles :
    /\ op = "idle"
    /\ heap0' = heap
    /\ heap' = heap
    /\ op' = "is_external_twobyte"
    /\ arg' = [NoArg EXCEPT !.this = this]
    /\ ret' = [NoRet EXCEPT !.flag = is_external_twobyte(heap[this])]
    /\ calls' = <<>>

CallIsOneByte ==
  \E this \in Handles :
    /\ op = "idle"
    /\ heap0' = heap
    /\ heap' = heap
    /\ op' = "is_onebyte"
    /\ arg' = [NoArg EXCEPT !.this = this]
    /\ ret' = [NoRet EXCEPT !.flag = is_onebyte(heap[this])]
    /\ calls' = <<>>

CallToRustStringLossy ==
  \E this \in Handles :
    \E uninit \in UninitBytes :
      LET r == to_rust_string_lossy(heap[this], uninit)
      IN /\ op = "idle"
       /\ heap0' = heap
         /\ heap' = heap
         /\ op' = "to_rust_string_lossy"
         /\ arg' = [NoArg EXCEPT !.this = this]
         /\ ret' = [NoRet EXCEPT !.text = r.text, !.n = r.length,
                                 !.capacity = r.capacity]
         /\ calls' = r.calls

\* A script running in the engine leaves a string behind.
ScriptCreatesString ==
  \E s \in ScriptStrings :
    /\ op = "idle"
    /\ Len(heap) < MaxHeap
    /\ heap0' = heap
    /\ heap' = Append(heap, s)
    /\ op' = "script"
    /\ arg' = NoArg
    /\ ret' = NoRet
    /\ calls' = <<>>

\* The caller is done with the result.  The record of the last call is
\* there to be observed; dropping it changes nothing in the engine.
Forget ==
  /\ op # "idle"
  /\ heap0' = heap
  /\ heap' = heap
  /\ op' = "idle"
  /\ arg' = NoArg
  /\ ret' = NoRet
  /\ calls' = <<>>

Next ==
  \/ CallEmpty
  \/ CallNewFromUtf8
  \/ CallNew
  \/ CallNewExternalOneByteStatic
  \/ CallLength
  \/ CallUtf8Length
  \/ CallWriteUtf8
  \/ CallIsExternal
  \/ CallIsExternalOneByte
  \/ CallIsExternalTwoByte
  \/ CallIsOneByte
  \/ CallToRustStringLossy
  \/ ScriptCreatesString
  \/ Forget

Spec == Init /\ [][Next]_vars

\* ------------------------------------------------------------- properties
CreationOps == {"new_from_utf8", "new", "new_external_onebyte_static"}
QueryOps == {"is_external", "is_external_onebyte", "is_external_twobyte",
             "is_onebyte"}

\* The backend calls of the last binding call that create or register.
CreationCalls ==
  {i \in 1..Len(calls) :
     calls[i].fn \in {"v8__String__NewFromUtf8",
                      "v8__String__NewExternalOneByteStatic"}}

\* Code units with every unpaired surrogate replaced by U+FFFD.
RECURSIVE Sanitize(_, _)
Sanitize(units, i) ==
  IF i > Len(units) THEN <<>>
  ELSE IF IsLeadSurrogate(units[i]) /\ i < Len(units)
          /\ IsTrailSurrogate(units[i + 1])
  THEN <<units[i], units[i + 1]>> \o Sanitize(units, i + 2)
  ELSE IF IsSurrogate(units[i])
  THEN <<ReplacementChar>> \o Sanitize(units, i + 1)
  ELSE <<units[i]>> \o Sanitize(units, i + 1)

HasOrphanSurrogate(units) == Sanitize(units, 1) # units

\* A host text of ASCII/Latin-1 characters only, held in full.
IsLatin1Text(buffer) ==
  /\ Len(buffer.data) = buffer.len
  /\ IsValidUtf8(buffer.data)
  /\ IsLatin1(DecodeUtf8(buffer.data))

\* C1: new_from_utf8 (and new) on an empty buffer, for either NewStringType,
\* returns Some handle to the very string empty() returns; it gets it from
\* v8__String__Empty alone, never from v8__String__NewFromUtf8, and creates
\* nothing.  In every state, whatever was created before, empty() still
\* names the same heap entry, that entry is still the empty string, and no
\* other string of the heap is empty.
C1_EmptySingleton ==
  /\ empty(heap).local = empty(heap0).local
  /\ empty(heap).local = empty(<<EmptyString>>).local
  /\ heap[empty(heap).local] = EmptyString
  /\ \A i \in Handles : heap[i].units = <<>> => i = empty(heap).local
  /\ (op \in {"new_from_utf8", "new"} /\ arg.buffer.len = 0) =>
       /\ ret.local = Some(empty(heap).local)
       /\ calls = empty(heap).calls
       /\ CreationCalls = {}
       /\ heap = heap0

C1_Witness ==
  /\ op = "new_from_utf8"
  /\ arg.buffer.len = 0
  /\ arg.new_type = "Internalized"
  /\ Len(heap) > 1
  /\ ret.local.some

\* C2: a creation call on a buffer longer than int::max_value() returns
\* None without calling the backend, so the heap is unchanged; a creation
\* call on a non-empty buffer that fits calls the backend once, with exactly
\* the buffer's length; no length a creation call passes is negative.
C2_OverflowRejected ==
  op \in CreationOps =>
    /\ arg.buffer.len > IntMax =>
         /\ ret.local = None
         /\ calls = <<>>
         /\ heap = heap0
    /\ (arg.buffer.len > 0 /\ arg.buffer.len <= IntMax) =>
         /\ Len(calls) = 1
         /\ CreationCalls = {1}
         /\ calls[1].length = arg.buffer.len
    /\ \A i \in CreationCalls :
         calls[i].length > 0 /\ calls[i].length <= IntMax

C2_Witness ==
  /\ op = "new_from_utf8"
  /\ arg.buffer.len = IntModulus + 1
  /\ ret.local = None
  /\ calls = <<>>

\* C3: new_external_onebyte_static on an empty buffer returns None, calls
\* no backend function and leaves the heap as it was, whereas new_from_utf8
\* on an empty buffer returns Some; the registration primitive is never
\* called with length 0.
C3_ExternalEmptyRejected ==
  /\ (op = "new_external_onebyte_static" /\ arg.buffer.len = 0) =>
       /\ ret.local = None
       /\ calls = <<>>
       /\ heap = heap0
  /\ (op = "new_from_utf8" /\ arg.buffer.len = 0) => ret.local.some
  /\ \A i \in 1..Len(calls) :
       calls[i].fn = "v8__String__NewExternalOneByteStatic"
         => calls[i].length # 0

C3_Witness ==
  /\ op = "new_external_onebyte_static"
  /\ arg.buffer.len = 0
  /\ ret.local = None
  /\ Len(heap) > 1

\* C4: write_utf8 passes the backend min(buffer length, int::max_value())
\* as the capacity: never negative, never more than the buffer holds; it
\* returns a byte count within the buffer for any buffer length.  The
\* creation calls do not clamp: on a length that does not fit they return
\* None and pass nothing.
C4_WriteCapacityClamped ==
  /\ op = "write_utf8" =>
       /\ Len(calls) = 1
       /\ calls[1].fn = "v8__String__WriteUtf8"
       /\ calls[1].length = Min(arg.buffer.len, IntMax)
       /\ calls[1].length >= 0
       /\ calls[1].length <= arg.buffer.len
       /\ calls[1].options = arg.options
       /\ ret.n = calls[1].result
       /\ ret.n <= arg.buffer.len
       /\ Len(ret.text) = ret.n
  /\ (op \in CreationOps /\ arg.buffer.len > IntMax) =>
       ret.local = None /\ calls = <<>>

C4_Witness ==
  /\ op = "write_utf8"
  /\ arg.buffer.len = UsizeMax
  /\ calls[1].length = IntMax
  /\ ret.n > 0

\* C5: to_rust_string_lossy calls write_utf8 with exactly
\* NO_NULL_TERMINATION | REPLACE_INVALID_UTF8; what it returns is valid
\* UTF-8 that decodes to the string's code units with each unpaired
\* surrogate replaced by U+FFFD, and holds no terminator: it is as long as
\* utf8_length says.
C5_LossyIsValidUtf8 ==
  op = "to_rust_string_lossy" =>
    /\ Len(calls) = 2
    /\ calls[2].fn = "v8__String__WriteUtf8"
    /\ calls[2].options = NO_NULL_TERMINATION + REPLACE_INVALID_UTF8
    /\ IsValidUtf8(ret.text)
    /\ DecodeUtf8(ret.text) = Sanitize(heap[arg.this].units, 1)
    /\ Len(ret.text) = v8__String__Utf8Length(heap[arg.this])

C5_Witness ==
  /\ op = "to_rust_string_lossy"
  /\ HasOrphanSurrogate(heap[arg.this].units)
  /\ ret.text = <<239, 191, 189, 97>>

\* C6 as claimed: new_from_utf8(Normal) on any Latin-1 text whose length
\* fits an `int` returns Some string, and to_rust_string_lossy of it is the
\* text.
C6_RoundTripAlwaysSome ==
  (op = "new_from_utf8" /\ arg.new_type = "Normal"
     /\ arg.buffer.len <= IntMax
     /\ IsLatin1Text(arg.buffer)) =>
    /\ ret.local.some
    /\ \A uninit \in UninitBytes :
         to_rust_string_lossy(heap[ret.local.v], uninit).text = arg.buffer.data

\* C6 amended: whenever new_from_utf8(Normal) (or new) on a Latin-1 text
\* returns Some string, to_rust_string_lossy of that string is the text,
\* the empty text included; and it does return Some when the text is empty
\* or when the backend returned a string.
C6_RoundTrip ==
  (op \in {"new_from_utf8", "new"} /\ arg.new_type = "Normal"
     /\ IsLatin1Text(arg.buffer)) =>
    /\ ret.local.some =>
         \A uninit \in UninitBytes :
           to_rust_string_lossy(heap[ret.local.v], uninit).text
             = arg.buffer.data
    /\ (arg.buffer.len = 0 \/ calls[Len(calls)].result # NullPtr)
         => ret.local.some

C6_Witness ==
  /\ op = "new_from_utf8"
  /\ arg.new_type = "Normal"
  /\ arg.buffer = Buf(<<97, 195, 169>>)
  /\ ret.local.some
  /\ to_rust_string_lossy(heap[ret.local.v], 0).text = <<97, 195, 169>>

\* C7: is_external answers what the backend's IsExternalOneByte or
\* IsExternalTwoByte answers; a string new_external_onebyte_static returned
\* is external and external one-byte; the four queries leave the heap
\* as it was and call nothing that creates.
C7_IsExternal ==
  /\ op = "is_external" =>
       ret.flag = (v8__String__IsExternalOneByte(heap[arg.this])
                   \/ v8__String__IsExternalTwoByte(heap[arg.this]))
  /\ \A this \in Handles :
       is_external(heap[this])
         = (is_external_onebyte(heap[this]) \/ is_external_twobyte(heap[this]))
  /\ (op = "new_external_onebyte_static" /\ ret.local.some) =>
       /\ is_external_onebyte(heap[ret.local.v])
       /\ is_external(heap[ret.local.v])
  /\ op \in QueryOps => heap = heap0 /\ CreationCalls = {}

C7_Witness ==
  /\ op = "is_external"
  /\ ret.flag
  /\ heap[arg.this] = EngineString(<<97>>, TRUE, TRUE, FALSE)

\* C8: is_onebyte answers what the backend's IsOneByte answers, so it is
\* true of a one-byte string that is not external.
C8_IsOneByte ==
  op = "is_onebyte" => ret.flag = v8__String__IsOneByte(heap[arg.this])

\* C9: a creation call returns Some exactly when the backend returned a
\* non-null pointer (or, for new_from_utf8 on an empty buffer, the Empty
\* string); the handle is that pointer and names a string of the heap.
\* When the backend returns null the result is None, the same as for a
\* length that does not fit, and the heap is unchanged.
C9_FailureIsNone ==
  op \in CreationOps =>
    /\ ret.local.some =>
         /\ Len(calls) = 1
         /\ calls[1].result # NullPtr
         /\ ret.local.v = calls[1].result
         /\ ret.local.v \in Handles
    /\ (calls # <<>> /\ calls[Len(calls)].result = NullPtr) =>
         /\ ret.local = None
         /\ heap = heap0
    /\ ~ret.local.some => ret.local = None /\ heap = heap0

C9_Witness ==
  /\ op = "new_external_onebyte_static"
  /\ arg.buffer.len > 0
  /\ arg.buffer.len <= kMaxLength
  /\ Len(heap) < MaxHeap
  /\ calls[1].result = NullPtr
  /\ ret.local = None

====
